---- MODULE Spec2Model ----
(***************************************************************************)
(* Model of the Ulauncher GitLab extension (src/main.py).                  *)
(*                                                                         *)
(* The extension is a set of event listeners around one session object     *)
(* (GitLabExtension.gitlab, .current_user, .preferences).  The host        *)
(* delivers events one at a time; each action below is one whole           *)
(* on_event call.  The remote GitLab API is the environment: every remote  *)
(* call returns a nondeterministically chosen outcome (a value or a raised *)
(* exception).                                                             *)
(*                                                                         *)
(* Texts that the code inspects character by character (the query, the     *)
(* titles filtered by the overview menu) are sequences of one-character    *)
(* strings; texts that are only copied are strings.                        *)
(***************************************************************************)
EXTENDS Integers, Sequences, FiniteSets, TLC

VARIABLES
    gitlab,        \* GitLabExtension.gitlab: None or the client
    current_user,  \* GitLabExtension.current_user: None or the resolved user
    preferences,   \* Extension.preferences, maintained by the host
    event,         \* the last event the host delivered
    calls,         \* the remote calls the last handler issued, in order
    response,      \* what the last handler did: returned an action, returned
                   \* nothing, or let an exception escape to the host
    invoked,       \* the extension methods the last handler entered, in order
    authCalls      \* authentication calls issued by show_overview_menu since
                   \* the last preferences event (history variable)

vars == <<gitlab, current_user, preferences, event, calls, response, invoked,
          authCalls>>

----------------------------------------------------------------------------
(* Bounds of the model *)

\* longest text following the first word of a query
MaxTail == 1
\* most lazy authentication calls followed between two preferences events
MaxAuth == 2

----------------------------------------------------------------------------
(* Values *)

\* Python's None, for object-valued fields
None == [none |-> TRUE]
\* Python's None, for nullable text attributes of remote entities
NoneStr == "<None>"

PROJECTS_SEARCH_TYPE_PUBLIC == "PUBLIC"
PROJECTS_SEARCH_TYPE_MEMBER == "MEMBER"
PROJECTS_SEARCH_TYPE_STARRED == "STARRED"

\* page size of every list request
PerPage == 10
\* page requested by every list request
FirstPage == 1

Urls == {"https://gl.one", "https://gl.two"}
Tokens == {"tokA", "tokB"}
Keywords == {"gl"}

\* the remote entities of the model; the second of each kind has a null text
Projects ==
    { [id |-> 1, name |-> "alpha", description |-> "first project",
       web_url |-> "https://gl.one/alpha"],
      [id |-> 2, name |-> "beta", description |-> NoneStr,
       web_url |-> "https://gl.one/beta"] }

Groups ==
    { [name |-> "team", description |-> "the team",
       web_url |-> "https://gl.one/groups/team"],
      [name |-> "ops", description |-> NoneStr,
       web_url |-> "https://gl.one/groups/ops"] }

Pipelines ==
    { [source |-> "push", ref |-> "main", name |-> "build",
       web_url |-> "https://gl.one/alpha/-/pipelines/7"],
      [source |-> "web", ref |-> "dev", name |-> NoneStr,
       web_url |-> "https://gl.one/alpha/-/pipelines/9"] }

\* exceptions a remote call can raise: gitlab.GitlabError and its subclasses,
\* and exceptions outside that hierarchy (the transport's own)
GitlabErrorClasses == {"GitlabListError", "GitlabAuthenticationError"}
OtherErrorClasses == {"ConnectionError"}

Exc(cls, text) == [cls |-> cls, str |-> text]

IsGitlabError(exc) == exc.cls \in GitlabErrorClasses

SeqsUpTo(S, n) == UNION { [1..k -> S] : k \in 0..n }

----------------------------------------------------------------------------
(* Text *)

UpperToLower ==
    [c \in {"A","B","C","D","E","F","G","H","I","J","K","L","M","N","O","P",
            "Q","R","S","T","U","V","W","X","Y","Z"} |->
        CASE c = "A" -> "a" [] c = "B" -> "b" [] c = "C" -> "c" [] c = "D" -> "d"
          [] c = "E" -> "e" [] c = "F" -> "f" [] c = "G" -> "g" [] c = "H" -> "h"
          [] c = "I" -> "i" [] c = "J" -> "j" [] c = "K" -> "k" [] c = "L" -> "l"
          [] c = "M" -> "m" [] c = "N" -> "n" [] c = "O" -> "o" [] c = "P" -> "p"
          [] c = "Q" -> "q" [] c = "R" -> "r" [] c = "S" -> "s" [] c = "T" -> "t"
          [] c = "U" -> "u" [] c = "V" -> "v" [] c = "W" -> "w" [] c = "X" -> "x"
          [] c = "Y" -> "y" [] c = "Z" -> "z"]

\* str.lower() of one character
LowerChar(c) == IF c \in DOMAIN UpperToLower THEN UpperToLower[c] ELSE c

\* str.lower()
Lower(s) == [i \in 1..Len(s) |-> LowerChar(s[i])]

\* the Python test `a in b` on texts
Contains(a, b) ==
    \E k \in 0..(Len(b) - Len(a)) : \A i \in 1..Len(a) : b[k + i] = a[i]

\* the text a character sequence spells
RECURSIVE Str(_)
Str(s) == IF s = <<>> THEN "" ELSE s[1] \o Str(Tail(s))

\* the command words of the routing patterns
W_overview == <<"o","v","e","r","v","i","e","w">>
W_pipelines == <<"p","i","p","e","l","i","n","e","s">>
W_mr == <<"m","r">>
W_projects == <<"p","r","o","j","e","c","t","s">>
W_groups == <<"g","r","o","u","p","s">>

\* re.findall(r"^word(.*)?$", query, re.IGNORECASE): a list holding the one
\* captured group, or the empty list.  "^" matches at position 0 only; "."
\* matches any character but a line feed; "$" matches at the end of the text
\* and just before a line feed that ends the text.
Findall(word, query) ==
    LET n == Len(word)
        rest == SubSeq(query, n + 1, Len(query))
        m == Len(rest)
        group == IF m > 0 /\ rest[m] = "\n" THEN SubSeq(rest, 1, m - 1) ELSE rest
    IN  IF /\ Len(query) >= n
           /\ \A i \in 1..n : LowerChar(query[i]) = LowerChar(word[i])
           /\ \A i \in 1..Len(group) : group[i] # "\n"
        THEN <<group>>
        ELSE <<>>

----------------------------------------------------------------------------
(* Host API: actions and items *)

HideWindowAction == [type |-> "HideWindow"]
OpenUrlAction(url) == [type |-> "OpenUrl", url |-> url]
CopyToClipboardAction(text) == [type |-> "CopyToClipboard", text |-> text]
SetUserQueryAction(new_query) == [type |-> "SetUserQuery", new_query |-> new_query]
ExtensionCustomAction(data, keep_app_open) ==
    [type |-> "ExtensionCustom", data |-> data, keep_app_open |-> keep_app_open]
RenderResultListAction(items) == [type |-> "RenderResultList", items |-> items]
\* an item built without on_alt_enter
NoAction == [type |-> "NoAction"]

ExtensionResultItem(name, description, on_enter, on_alt_enter) ==
    [icon |-> "images/icon.png", name |-> name, description |-> description,
     highlightable |-> FALSE, on_enter |-> on_enter, on_alt_enter |-> on_alt_enter]

----------------------------------------------------------------------------
(* Control flow of one handler.  A handler run ends by returning an action, *)
(* by returning nothing, or by raising; it leaves behind the session        *)
(* (self), the remote calls it issued and the extension methods it entered. *)

Return(action) == [kind |-> "return", action |-> action]
ReturnNone == [kind |-> "return_none"]
Raise(exc) == [kind |-> "raise", exc |-> exc]

Ran(self, ret, issued, entered) ==
    [self |-> self, response |-> ret, calls |-> issued, invoked |-> entered]

\* outcome of a remote call
Ok(value) == [ok |-> TRUE, value |-> value]
Failed(exc) == [ok |-> FALSE, exc |-> exc]

Call(request, outcome) == [request |-> request, outcome |-> outcome]

----------------------------------------------------------------------------
(* The remote API, as the client library presents it *)

\* gitlab.Gitlab(url, private_token=...): a client that has resolved no user
Gitlab(url, private_token) ==
    [url |-> url, private_token |-> private_token, user |-> None]

\* the identity the instance at `url` resolves `private_token` to
User(url, private_token) == [url |-> url, token |-> private_token]

AuthRequest(client) ==
    [op |-> "auth", url |-> client.url, private_token |-> client.private_token]

ListRequest(op, client, args) ==
    [op |-> op, url |-> client.url, private_token |-> client.private_token,
     args |-> args]

PipelinesRequest(project, args) ==
    [op |-> "project.pipelines.list", project |-> project, args |-> args]

----------------------------------------------------------------------------
(* GitLabExtension.  `self` is the session: [gitlab, current_user,          *)
(* preferences].  `out` is the outcome of the one remote call the method    *)
(* issues, if it issues one.                                                *)

GitLabExtension_init == [gitlab |-> None, current_user |-> None, preferences |-> <<>>]

show_menu(self) ==
    LET keyword == self.preferences["kw"]
        menu == << ExtensionResultItem("Overview", "",
                       SetUserQueryAction(keyword \o " overview"), NoAction),
                   ExtensionResultItem("Pipelines", "List running pipelines",
                       SetUserQueryAction(keyword \o " pipelines "), NoAction),
                   ExtensionResultItem("Merge Requests", "List opened merge request",
                       SetUserQueryAction(keyword \o " mr"), NoAction) >>
    IN  Ran(self, Return(RenderResultListAction(menu)), <<>>,
            <<[method |-> "show_menu"]>>)

\* titles of the overview menu, as the texts the filter inspects
T_Gitlab == <<"G","i","t","l","a","b">>
T_MyGroups == <<"M","y"," ","G","r","o","u","p","s">>
T_MyAccessTokens == <<"M","y"," ","A","c","c","e","s","s"," ","T","o","k","e","n","s">>

\* items = [p for p in items if keep(p)]
RECURSIVE Filter(_, _)
Filter(titles, query) ==
    IF titles = <<>> THEN <<>>
    ELSE LET rest == Filter(Tail(titles), query)
         IN  IF Contains(Lower(query), Lower(Head(titles)))
             THEN <<Head(titles)>> \o rest
             ELSE rest

\* show_overview_menu with the guard of the authentication dropped: it
\* authenticates on every call
show_overview_menu_AlwaysAuth(self, query, out) ==
    LET entered == <<[method |-> "show_overview_menu", query |-> query]>>
        issued == <<Call(AuthRequest(self.gitlab), out)>>
    IN  IF ~out.ok
        THEN Ran(self, Raise(out.exc), issued, entered)
        ELSE Ran([self EXCEPT !.gitlab.user = out.value, !.current_user = out.value],
                 Return(RenderResultListAction(<<>>)), issued, entered)

show_overview_menu(self, query, out) ==
    LET keyword == self.preferences["kw"]
        gitlab_url == self.preferences["url"]
        entered == <<[method |-> "show_overview_menu", query |-> query]>>
        authenticate == self.current_user = None
        issued == IF authenticate
                  THEN <<Call(AuthRequest(self.gitlab), out)>> ELSE <<>>
    IN  IF authenticate /\ ~out.ok
        THEN Ran(self, Raise(out.exc), issued, entered)
        ELSE
        LET after == IF authenticate
                     THEN [self EXCEPT !.gitlab.user = out.value,
                                       !.current_user = out.value]
                     ELSE self
            item(title) ==
                CASE title = T_Gitlab ->
                        ExtensionResultItem(Str(title), "Open gitlab",
                            OpenUrlAction(gitlab_url), NoAction)
                  [] title = T_MyGroups ->
                        ExtensionResultItem(Str(title), "List the groups you belong",
                            SetUserQueryAction(keyword \o " groups "),
                            CopyToClipboardAction(gitlab_url \o "/dashboard/groups"))
                  [] title = T_MyAccessTokens ->
                        ExtensionResultItem(Str(title), "Open \"Access Tokens\" page",
                            OpenUrlAction(gitlab_url
                                \o "/-/user_settings/personal_access_tokens"),
                            NoAction)
            all == <<T_Gitlab, T_MyGroups, T_MyAccessTokens>>
            kept == IF query # <<>> THEN Filter(all, query) ELSE all
            items == [i \in 1..Len(kept) |-> item(kept[i])]
        IN  Ran(after, Return(RenderResultListAction(items)), issued, entered)

\* description = x.description if x.description is not None else ""
DescriptionOf(text) == IF text # NoneStr THEN text ELSE ""

NoProjectsFound ==
    ExtensionResultItem("No projects found matching your search criteria", "",
                        HideWindowAction, NoAction)

MemberSearchArgs(query) ==
    [search |-> query, membership |-> 1, order_by |-> "name", sort |-> "asc",
     simple |-> 1, page |-> FirstPage, per_page |-> PerPage]

StarredSearchArgs(query) ==
    [search |-> query, order_by |-> "last_activity_at", sort |-> "desc",
     starred |-> 1, simple |-> 1, page |-> FirstPage, per_page |-> PerPage]

PublicSearchArgs(query) ==
    [search |-> query, visibility |-> "public", order_by |-> "last_activity_at",
     sort |-> "desc", simple |-> 1, page |-> FirstPage, per_page |-> PerPage]

\* search_projects_for_pipeline with the items of search_projects: they open
\* the project instead of carrying it to the item-enter handler
search_projects_for_pipeline_OpenUrl(self, query, out) ==
    LET entered == <<[method |-> "search_projects_for_pipeline", query |-> query]>>
        issued == <<Call(ListRequest("projects.list", self.gitlab,
                                     MemberSearchArgs(query)), out)>>
    IN  IF ~out.ok THEN Ran(self, Raise(out.exc), issued, entered)
        ELSE IF out.value = <<>>
        THEN Ran(self, Return(RenderResultListAction(<<NoProjectsFound>>)),
                 issued, entered)
        ELSE Ran(self,
                 Return(RenderResultListAction(
                    [i \in 1..Len(out.value) |->
                        ExtensionResultItem(out.value[i].name,
                            DescriptionOf(out.value[i].description),
                            OpenUrlAction(out.value[i].web_url),
                            CopyToClipboardAction(out.value[i].web_url))])),
                 issued, entered)

search_projects_for_pipeline(self, query, out) ==
    LET entered == <<[method |-> "search_projects_for_pipeline", query |-> query]>>
        issued == <<Call(ListRequest("projects.list", self.gitlab,
                                     MemberSearchArgs(query)), out)>>
    IN  IF ~out.ok THEN Ran(self, Raise(out.exc), issued, entered)
        ELSE
        LET projects == out.value
        IN  IF projects = <<>>
            THEN Ran(self, Return(RenderResultListAction(<<NoProjectsFound>>)),
                     issued, entered)
            ELSE
            LET items == [i \in 1..Len(projects) |->
                            ExtensionResultItem(projects[i].name,
                                DescriptionOf(projects[i].description),
                                ExtensionCustomAction(projects[i], TRUE),
                                NoAction)]
            IN  Ran(self, Return(RenderResultListAction(items)), issued, entered)

\* search_projects passing the description on as it is, null included
search_projects_RawDescription(self, query, search_type, out) ==
    LET entered == <<[method |-> "search_projects", query |-> query,
                      search_type |-> search_type]>>
        issued == <<Call(ListRequest("projects.list", self.gitlab,
                                     MemberSearchArgs(query)), out)>>
    IN  IF ~out.ok THEN Ran(self, Raise(out.exc), issued, entered)
        ELSE IF out.value = <<>>
        THEN Ran(self, Return(RenderResultListAction(<<NoProjectsFound>>)),
                 issued, entered)
        ELSE Ran(self,
                 Return(RenderResultListAction(
                    [i \in 1..Len(out.value) |->
                        ExtensionResultItem(out.value[i].name,
                            out.value[i].description,
                            OpenUrlAction(out.value[i].web_url),
                            CopyToClipboardAction(out.value[i].web_url))])),
                 issued, entered)

search_projects(self, query, search_type, out) ==
    LET entered == <<[method |-> "search_projects", query |-> query,
                      search_type |-> search_type]>>
        args == IF search_type = PROJECTS_SEARCH_TYPE_MEMBER
                THEN MemberSearchArgs(query)
                ELSE IF search_type = PROJECTS_SEARCH_TYPE_STARRED
                THEN StarredSearchArgs(query)
                ELSE PublicSearchArgs(query)
        issued == <<Call(ListRequest("projects.list", self.gitlab, args), out)>>
    IN  IF ~out.ok THEN Ran(self, Raise(out.exc), issued, entered)
        ELSE
        LET projects == out.value
        IN  IF projects = <<>>
            THEN Ran(self, Return(RenderResultListAction(<<NoProjectsFound>>)),
                     issued, entered)
            ELSE
            LET items == [i \in 1..Len(projects) |->
                            ExtensionResultItem(projects[i].name,
                                DescriptionOf(projects[i].description),
                                OpenUrlAction(projects[i].web_url),
                                CopyToClipboardAction(projects[i].web_url))]
            IN  Ran(self, Return(RenderResultListAction(items)), issued, entered)

list_groups(self, query, out) ==
    LET entered == <<[method |-> "list_groups", query |-> query]>>
        args == [archived |-> 0, search |-> query, order_by |-> "name",
                 sort |-> "asc", page |-> FirstPage, per_page |-> PerPage]
        issued == <<Call(ListRequest("groups.list", self.gitlab, args), out)>>
    IN  IF ~out.ok THEN Ran(self, Raise(out.exc), issued, entered)
        ELSE
        LET groups == out.value
        IN  IF groups = <<>>
            THEN Ran(self,
                     Return(RenderResultListAction(<<
                        ExtensionResultItem(
                            "No groups found matching your search criteria", "",
                            HideWindowAction, NoAction) >>)),
                     issued, entered)
            ELSE
            LET items == [i \in 1..Len(groups) |->
                            ExtensionResultItem(groups[i].name,
                                DescriptionOf(groups[i].description),
                                OpenUrlAction(groups[i].web_url),
                                CopyToClipboardAction(groups[i].web_url))]
            IN  Ran(self, Return(RenderResultListAction(items)), issued, entered)

----------------------------------------------------------------------------
(* ItemEnterEventListener.on_event *)

\* ItemEnterOnEvent without the test for an empty list
ItemEnterOnEvent_NoEmptyCheck(self, ev, out) ==
    LET issued == <<Call(PipelinesRequest(ev.data,
                            [order_by |-> "updated_at", status |-> "running"]),
                         out)>>
    IN  IF ~out.ok THEN Ran(self, Raise(out.exc), issued, <<>>)
        ELSE Ran(self,
                 Return(RenderResultListAction(
                    [i \in 1..Len(out.value) |->
                        ExtensionResultItem(
                            out.value[i].source \o "/" \o out.value[i].ref,
                            DescriptionOf(out.value[i].name),
                            OpenUrlAction(out.value[i].web_url),
                            CopyToClipboardAction(out.value[i].web_url))])),
                 issued, <<>>)

ItemEnterOnEvent(self, ev, out) ==
    LET data == ev.data
        issued == <<Call(PipelinesRequest(data,
                            [order_by |-> "updated_at", status |-> "running"]),
                         out)>>
    IN  IF ~out.ok THEN Ran(self, Raise(out.exc), issued, <<>>)
        ELSE
        LET pipelines == out.value
        IN  IF pipelines = <<>>
            THEN Ran(self,
                     Return(RenderResultListAction(<<
                        ExtensionResultItem("No pipelines found", "",
                                            HideWindowAction, NoAction) >>)),
                     issued, <<>>)
            ELSE
            LET items == [i \in 1..Len(pipelines) |->
                            ExtensionResultItem(
                                pipelines[i].source \o "/" \o pipelines[i].ref,
                                DescriptionOf(pipelines[i].name),
                                OpenUrlAction(pipelines[i].web_url),
                                CopyToClipboardAction(pipelines[i].web_url))]
            IN  Ran(self, Return(RenderResultListAction(items)), issued, <<>>)

----------------------------------------------------------------------------
(* KeywordQueryEventListener.on_event *)

\* event.get_argument() or ""
ArgumentOrEmpty(ev) == IF ev.has_argument THEN ev.argument ELSE <<>>

\* the command the if-chain of the try block selects, with its argument
Route(query) ==
    LET overview == Findall(W_overview, query)
        pipelines == Findall(W_pipelines, query)
        merge_requests == Findall(W_mr, query)
        repos == Findall(W_projects, query)
        groups == Findall(W_groups, query)
    IN  IF query = <<>> THEN [command |-> "menu", argument |-> <<>>]
        ELSE IF overview # <<>> THEN [command |-> "overview", argument |-> overview[1]]
        ELSE IF repos # <<>> THEN [command |-> "projects", argument |-> repos[1]]
        ELSE IF pipelines # <<>> THEN [command |-> "pipelines", argument |-> pipelines[1]]
        ELSE IF merge_requests # <<>>
             THEN [command |-> "mr", argument |-> merge_requests[1]]
        ELSE IF groups # <<>> THEN [command |-> "groups", argument |-> groups[1]]
        ELSE [command |-> "default", argument |-> query]

\* the body of the try block
TryBlock(self, query, out) ==
    LET r == Route(query)
    IN  CASE r.command = "overview" -> show_overview_menu(self, r.argument, out)
          [] r.command = "projects" ->
                search_projects(self, r.argument, PROJECTS_SEARCH_TYPE_MEMBER, out)
          [] r.command = "pipelines" ->
                search_projects_for_pipeline(self, r.argument, out)
          [] r.command = "mr" ->
                \* GitLabExtension defines no list_merge_requests
                Ran(self,
                    Raise(Exc("AttributeError",
                        "'GitLabExtension' object has no attribute 'list_merge_requests'")),
                    <<>>, <<>>)
          [] r.command = "groups" -> list_groups(self, r.argument, out)
          [] r.command = "default" ->
                search_projects(self, query, PROJECTS_SEARCH_TYPE_MEMBER, out)

ErrorItem(exc) ==
    ExtensionResultItem("An error ocurred when connecting to GitLab", exc.str,
                        HideWindowAction, NoAction)

\* KeywordQueryOnEvent with an except clause for GitlabListError only
KeywordQueryOnEvent_ListErrorOnly(self, ev, out) ==
    LET query == ArgumentOrEmpty(ev)
    IN  IF query = <<>> THEN show_menu(self)
        ELSE
        LET body == TryBlock(self, query, out)
        IN  IF body.response.kind = "raise"
               /\ body.response.exc.cls = "GitlabListError"
            THEN [body EXCEPT !.response =
                     Return(RenderResultListAction(<<ErrorItem(body.response.exc)>>))]
            ELSE body

KeywordQueryOnEvent(self, ev, out) ==
    LET query == ArgumentOrEmpty(ev)
    IN  IF query = <<>> THEN show_menu(self)
        ELSE
        LET body == TryBlock(self, query, out)
        IN  IF body.response.kind = "raise" /\ IsGitlabError(body.response.exc)
            THEN [body EXCEPT !.response =
                     Return(RenderResultListAction(<<ErrorItem(body.response.exc)>>))]
            ELSE body

----------------------------------------------------------------------------
(* PreferencesEventListener.on_event and PreferencesUpdateEventListener.on_event. *)
(* The host's own listeners, subscribed first, have already stored the           *)
(* preferences in self.preferences when these run.                               *)

PreferencesOnEvent(self, ev, out) ==
    LET client == Gitlab(ev.preferences["url"], ev.preferences["access_token"])
        issued == <<Call(AuthRequest(client), out)>>
    IN  IF out.ok
        THEN Ran([self EXCEPT !.gitlab = [client EXCEPT !.user = out.value],
                              !.current_user = out.value],
                 ReturnNone, issued, <<>>)
        ELSE \* except Exception
             Ran([self EXCEPT !.gitlab = client, !.current_user = None],
                 ReturnNone, issued, <<>>)

\* PreferencesUpdateOnEvent with `except gitlab.GitlabError` in place of
\* `except Exception`
PreferencesUpdateOnEvent_GitlabErrorOnly(self, ev, out) ==
    IF ev.id = "url"
    THEN Ran([self EXCEPT !.gitlab.url = ev.new_value], ReturnNone, <<>>, <<>>)
    ELSE IF ev.id = "access_token"
    THEN LET client == Gitlab(self.preferences["url"], ev.new_value)
             issued == <<Call(AuthRequest(client), out)>>
         IN  IF out.ok
             THEN Ran([self EXCEPT !.gitlab = [client EXCEPT !.user = out.value],
                                   !.current_user = out.value],
                      ReturnNone, issued, <<>>)
             ELSE IF IsGitlabError(out.exc)
             THEN Ran([self EXCEPT !.gitlab = client, !.current_user = None],
                      ReturnNone, issued, <<>>)
             ELSE Ran([self EXCEPT !.gitlab = client], Raise(out.exc), issued, <<>>)
    ELSE Ran(self, ReturnNone, <<>>, <<>>)

PreferencesUpdateOnEvent(self, ev, out) ==
    IF ev.id = "url"
    THEN Ran([self EXCEPT !.gitlab.url = ev.new_value], ReturnNone, <<>>, <<>>)
    ELSE IF ev.id = "access_token"
    THEN LET client == Gitlab(self.preferences["url"], ev.new_value)
             issued == <<Call(AuthRequest(client), out)>>
         IN  IF out.ok
             THEN Ran([self EXCEPT !.gitlab = [client EXCEPT !.user = out.value],
                                   !.current_user = out.value],
                      ReturnNone, issued, <<>>)
             ELSE \* except Exception
                  Ran([self EXCEPT !.gitlab = client, !.current_user = None],
                      ReturnNone, issued, <<>>)
    ELSE Ran(self, ReturnNone, <<>>, <<>>)

----------------------------------------------------------------------------
(* The environment: what the host delivers and what the remote answers *)

\* the texts a query starts with in the model
QueryHeads ==
    { <<>>, W_overview, W_projects, W_pipelines, W_mr,
      <<"G","r","o","u","p","s">> }

\* the characters that follow
TailChars == {"G", "\n"}

Queries == { h \o t : h \in QueryHeads, t \in SeqsUpTo(TailChars, MaxTail) }

\* lists without repetition
Listings(S) ==
    { l \in SeqsUpTo(S, Cardinality(S)) :
        \A i, j \in 1..Len(l) : i # j => l[i] # l[j] }

ListErrors ==
    { Failed(Exc("GitlabListError", "500: Internal Server Error")),
      Failed(Exc("ConnectionError", "connection refused")) }

AuthErrors ==
    { Failed(Exc("GitlabAuthenticationError", "401: 401 Unauthorized")),
      Failed(Exc("ConnectionError", "connection refused")) }

\* no remote call is issued
NoOutcome == Ok(None)

AuthOutcomes(client) ==
    {Ok(User(client.url, client.private_token))} \cup AuthErrors

ProjectListOutcomes == { Ok(l) : l \in Listings(Projects) } \cup ListErrors
GroupListOutcomes == { Ok(l) : l \in Listings(Groups) } \cup ListErrors
PipelineListOutcomes == { Ok(l) : l \in Listings(Pipelines) } \cup ListErrors

\* the command each query of the model is routed to
CommandOf == [q \in Queries \cup {<<>>} |-> Route(q).command]

\* the outcomes of the remote call a keyword query leads to
QueryOutcomes(self, query) ==
    LET c == CommandOf[query]
    IN  CASE c \in {"projects", "pipelines", "default"} ->
                ProjectListOutcomes
          [] c = "groups" -> GroupListOutcomes
          [] c = "overview" ->
                IF self.current_user = None THEN AuthOutcomes(self.gitlab)
                ELSE {NoOutcome}
          [] OTHER -> {NoOutcome}

Self == [gitlab |-> gitlab, current_user |-> current_user,
         preferences |-> preferences]

NoEvent == [type |-> "none"]

\* the host sends PreferencesEvent once, before any other event
Started == event # NoEvent

Deliver(ev, ran, auths) ==
    /\ event' = ev
    /\ gitlab' = ran.self.gitlab
    /\ current_user' = ran.self.current_user
    /\ preferences' = ran.self.preferences
    /\ calls' = ran.calls
    /\ response' = ran.response
    /\ invoked' = ran.invoked
    /\ authCalls' = auths

Init ==
    /\ gitlab = GitLabExtension_init.gitlab
    /\ current_user = GitLabExtension_init.current_user
    /\ preferences = GitLabExtension_init.preferences
    /\ event = NoEvent
    /\ calls = <<>>
    /\ response = ReturnNone
    /\ invoked = <<>>
    /\ authCalls = 0

PreferencesLoaded ==
    /\ ~Started
    /\ \E kw \in Keywords, url \in Urls, token \in Tokens :
        LET ev == [type |-> "PreferencesEvent",
                   preferences |-> [kw |-> kw, url |-> url, access_token |-> token]]
            hosted == [Self EXCEPT !.preferences = ev.preferences]
        IN  \E out \in AuthOutcomes(Gitlab(url, token)) :
            \E ran \in {PreferencesOnEvent(hosted, ev, out)} :
                Deliver(ev, ran, 0)

PreferencesUpdate ==
    /\ Started
    /\ \E id \in {"kw", "url", "access_token"} :
       \E new_value \in (CASE id = "kw" -> Keywords
                           [] id = "url" -> Urls
                           [] id = "access_token" -> Tokens) :
        /\ new_value # preferences[id]
        /\ LET ev == [type |-> "PreferencesUpdateEvent", id |-> id,
                      new_value |-> new_value]
               hosted == [Self EXCEPT !.preferences[id] = new_value]
           IN  \E out \in (IF id = "access_token"
                           THEN AuthOutcomes(Gitlab(hosted.preferences["url"], new_value))
                           ELSE {NoOutcome}) :
               \E ran \in {PreferencesUpdateOnEvent(hosted, ev, out)} :
                   Deliver(ev, ran, 0)

IsAuthCall(c) == c.request.op = "auth"

KeywordQuery ==
    /\ Started
    /\ \E has_argument \in BOOLEAN :
       \E argument \in (IF has_argument THEN Queries ELSE {<<>>}) :
        LET ev == [type |-> "KeywordQueryEvent", has_argument |-> has_argument,
                   argument |-> argument]
        IN  \E out \in QueryOutcomes(Self, ArgumentOrEmpty(ev)) :
            \E ran \in {KeywordQueryOnEvent(Self, ev, out)} :
            LET auths == authCalls
                         + Cardinality({i \in 1..Len(ran.calls) : IsAuthCall(ran.calls[i])})
            IN  /\ auths <= MaxAuth
                /\ Deliver(ev, ran, auths)

\* the user selects an item of the rendered list whose action is a custom
\* action; the host delivers the action's data
ItemEnter ==
    /\ Started
    /\ response.kind = "return"
    /\ \E i \in 1..Len(response.action.items) :
        LET on_enter == response.action.items[i].on_enter
        IN  /\ on_enter.type = "ExtensionCustom"
            /\ LET ev == [type |-> "ItemEnterEvent", data |-> on_enter.data]
               IN  \E out \in PipelineListOutcomes :
                   \E ran \in {ItemEnterOnEvent(Self, ev, out)} :
                       Deliver(ev, ran, authCalls)

Next ==
    \/ PreferencesLoaded
    \/ PreferencesUpdate
    \/ KeywordQuery
    \/ ItemEnter

Spec == Init /\ [][Next]_vars

----------------------------------------------------------------------------
(* Vocabulary of the properties *)

IsKeywordQuery(ev) == ev.type = "KeywordQueryEvent"
IsItemEnter(ev) == ev.type = "ItemEnterEvent"

ListOps == {"projects.list", "groups.list", "project.pipelines.list"}

\* the last handler issued a remote call and the call raised a GitlabError
GitlabFailure(cs) ==
    /\ cs # <<>>
    /\ ~cs[Len(cs)].outcome.ok
    /\ cs[Len(cs)].outcome.exc.cls \in {"GitlabListError", "GitlabAuthenticationError"}

\* the last call the last handler issued was `op`, and it returned
Listed(cs, op) ==
    /\ cs # <<>>
    /\ cs[Len(cs)].request.op = op
    /\ cs[Len(cs)].outcome.ok

Rendered(r) == r.kind = "return" /\ r.action.type = "RenderResultList"

DismissOnly(item) ==
    item.on_enter = [type |-> "HideWindow"] /\ item.on_alt_enter = [type |-> "NoAction"]

GenericErrorTitle == "An error ocurred when connecting to GitLab"

----------------------------------------------------------------------------
\* C1: when the remote call of a keyword query raises a GitlabError (the lazy
\* authentication of the overview command included), the handler returns a
\* list of exactly one item, titled with the generic error title, described
\* by the failure's text and dismissing the window; nothing escapes to the
\* host, and gitlab and current_user are what they were before the event.
C1_GitlabErrorRendered ==
    [][ (IsKeywordQuery(event') /\ GitlabFailure(calls'))
        => /\ Rendered(response')
           /\ Len(response'.action.items) = 1
           /\ response'.action.items[1].name = GenericErrorTitle
           /\ response'.action.items[1].description
                = calls'[Len(calls')].outcome.exc.str
           /\ DismissOnly(response'.action.items[1])
           /\ gitlab' = gitlab
           /\ current_user' = current_user ]_vars

\* the lazy authentication of the overview command failed with a GitlabError
\* and the error item was rendered
C1_Witness ==
    /\ IsKeywordQuery(event)
    /\ invoked # <<>> /\ invoked[1].method = "show_overview_menu"
    /\ GitlabFailure(calls)
    /\ Rendered(response)
    /\ response.action.items[1].description = "401: 401 Unauthorized"

\* C5: a list call that returns no entity (project search of the projects,
\* default and pipelines commands, group search, running pipelines of the
\* drill-down) is rendered as exactly one item whose only action hides the
\* window, with no alt-enter action, and that is not the error item.
C5_NoResultsPlaceholder ==
    (/\ calls # <<>>
     /\ calls[Len(calls)].request.op \in ListOps
     /\ calls[Len(calls)].outcome.ok
     /\ calls[Len(calls)].outcome.value = <<>>)
    => /\ Rendered(response)
       /\ Len(response.action.items) = 1
       /\ DismissOnly(response.action.items[1])
       /\ response.action.items[1].name # GenericErrorTitle

\* the drill-down found no running pipeline
C5_Witness ==
    /\ IsItemEnter(event)
    /\ Listed(calls, "project.pipelines.list")
    /\ calls[1].outcome.value = <<>>
    /\ Rendered(response)
    /\ response.action.items[1].name = "No pipelines found"

\* C6: a successful, non-empty project search (projects and default commands)
\* or group search asks for page 1 with page size 10 and renders one item per
\* returned entity, in the returned order: title the entity's name,
\* description the entity's description or "" when it is null, primary action
\* opening the entity's web URL, alt-enter action copying the same URL.
C6_SearchRendering ==
    (/\ IsKeywordQuery(event)
     /\ invoked # <<>>
     /\ invoked[1].method \in {"search_projects", "list_groups"}
     /\ calls # <<>>
     /\ calls[1].outcome.ok
     /\ calls[1].outcome.value # <<>>)
    => LET found == calls[1].outcome.value
           args == calls[1].request.args
       IN  /\ Len(calls) = 1
           /\ args.page = 1
           /\ args.per_page = 10
           /\ Rendered(response)
           /\ Len(response.action.items) = Len(found)
           /\ Len(response.action.items) <= 10
           /\ \A i \in 1..Len(found) :
                LET item == response.action.items[i]
                IN  /\ item.name = found[i].name
                    /\ item.description =
                         (IF found[i].description = NoneStr THEN ""
                          ELSE found[i].description)
                    /\ item.on_enter = [type |-> "OpenUrl", url |-> found[i].web_url]
                    /\ item.on_alt_enter
                         = [type |-> "CopyToClipboard", text |-> found[i].web_url]

\* a group search returned two groups, the second with a null description
C6_Witness ==
    /\ IsKeywordQuery(event)
    /\ invoked # <<>> /\ invoked[1].method = "list_groups"
    /\ Listed(calls, "groups.list")
    /\ Len(calls[1].outcome.value) = 2
    /\ calls[1].outcome.value[2].description = NoneStr
    /\ Rendered(response)
    /\ response.action.items[2].description = ""

\* C7: the pipelines command renders each found project as an item whose
\* primary action is a keep-window-open custom action carrying that project;
\* an item-enter event on such an item issues exactly one call, the list of
\* the running pipelines (status running, ordered by updated_at) of the
\* selected project, and renders one "No pipelines found" item when the call
\* returns none, or one item per pipeline, in the returned order, titled
\* "{source}/{ref}" and opening the pipeline's web URL.
C7_DrillDown ==
    [][ /\ (/\ IsKeywordQuery(event')
            /\ invoked' # <<>>
            /\ invoked'[1].method = "search_projects_for_pipeline"
            /\ calls'[1].outcome.ok
            /\ calls'[1].outcome.value # <<>>)
           => LET found == calls'[1].outcome.value
              IN  /\ Rendered(response')
                  /\ Len(response'.action.items) = Len(found)
                  /\ \A i \in 1..Len(found) :
                        response'.action.items[i].on_enter
                          = [type |-> "ExtensionCustom", data |-> found[i],
                             keep_app_open |-> TRUE]
        /\ IsItemEnter(event')
           => /\ \E i \in 1..Len(response.action.items) :
                    response.action.items[i].on_enter
                      = [type |-> "ExtensionCustom", data |-> event'.data,
                         keep_app_open |-> TRUE]
              /\ Len(calls') = 1
              /\ calls'[1].request
                    = [op |-> "project.pipelines.list", project |-> event'.data,
                       args |-> [order_by |-> "updated_at", status |-> "running"]]
              /\ calls'[1].outcome.ok
                 => LET found == calls'[1].outcome.value
                    IN  /\ Rendered(response')
                        /\ IF found = <<>>
                           THEN /\ Len(response'.action.items) = 1
                                /\ response'.action.items[1].name
                                     = "No pipelines found"
                           ELSE /\ Len(response'.action.items) = Len(found)
                                /\ \A i \in 1..Len(found) :
                                    /\ response'.action.items[i].name
                                         = found[i].source \o "/" \o found[i].ref
                                    /\ response'.action.items[i].on_enter
                                         = [type |-> "OpenUrl",
                                            url |-> found[i].web_url]
      ]_vars

\* the second project of a pipelines search was selected and has two running
\* pipelines
C7_Witness ==
    /\ IsItemEnter(event)
    /\ event.data.id = 2
    /\ Listed(calls, "project.pipelines.list")
    /\ Len(calls[1].outcome.value) = 2
    /\ Rendered(response)
    /\ response.action.items[1].name = "web/dev"
    /\ response.action.items[2].name = "push/main"

----------------------------------------------------------------------------
AuthIssued(cs) == \E i \in 1..Len(cs) : cs[i].request.op = "auth"
AuthSucceeded(cs) == \E i \in 1..Len(cs) : cs[i].request.op = "auth" /\ cs[i].outcome.ok

\* C9 (as claimed): over the keyword-query events between two preferences
\* events, the overview command issues at most one authentication call.
C9_AtMostOneAuthCall == authCalls <= 1

\* C9 (amended): a keyword-query event issues an authentication call only from
\* the overview command, only while current_user is none, and at most one per
\* event; a failed call leaves current_user none, a successful one sets it to
\* the resolved user; once current_user is set, no keyword-query event issues
\* an authentication call or changes current_user.
C9_LazyAuthentication ==
    [][ IsKeywordQuery(event')
        => /\ AuthIssued(calls')
              => /\ current_user = None
                 /\ Len(calls') = 1
                 /\ invoked'[1].method = "show_overview_menu"
           /\ AuthSucceeded(calls')
              => current_user' # None /\ current_user' = calls'[1].outcome.value
           /\ (AuthIssued(calls') /\ ~AuthSucceeded(calls'))
              => current_user' = None
           /\ current_user # None
              => current_user' = current_user /\ ~AuthIssued(calls')
      ]_vars

\* the overview command authenticated twice since the last preferences event:
\* the first call failed, the second resolved the user
C9_Witness ==
    /\ IsKeywordQuery(event)
    /\ authCalls = 2
    /\ AuthSucceeded(calls)
    /\ current_user # None

----------------------------------------------------------------------------
\* the commands that need no identity
NoIdentityCommands == {"menu", "projects", "pipelines", "groups", "default"}

\* the session, had the authentication of its client succeeded
Authenticated(self) ==
    LET user == [url |-> self.gitlab.url, token |-> self.gitlab.private_token]
    IN  [self EXCEPT !.gitlab.user = user, !.current_user = user]

\* C8: an authentication failure during the preferences-loaded event or an
\* access_token preferences-changed event does not escape the handler;
\* afterwards current_user is none and the newly constructed client is the
\* session's client.  While current_user is none, every keyword query of a
\* command that needs no identity is served through the installed client,
\* without an authentication call, and its handler does exactly what it does
\* on the authenticated session: same calls, same result.
C8_AuthFailureDegrades ==
    /\ (/\ \/ event.type = "PreferencesEvent"
           \/ event.type = "PreferencesUpdateEvent" /\ event.id = "access_token"
        /\ calls # <<>>
        /\ ~calls[1].outcome.ok)
       => /\ response.kind = "return_none"
          /\ current_user = None
          /\ gitlab = [url |-> preferences["url"],
                       private_token |-> preferences["access_token"],
                       user |-> None]
          /\ calls[1].request = [op |-> "auth", url |-> gitlab.url,
                                 private_token |-> gitlab.private_token]
    /\ (/\ IsKeywordQuery(event)
        /\ current_user = None
        /\ CommandOf[ArgumentOrEmpty(event)] \in NoIdentityCommands)
       => /\ \A i \in 1..Len(calls) :
                /\ calls[i].request.op # "auth"
                /\ calls[i].request.url = gitlab.url
                /\ calls[i].request.private_token = gitlab.private_token
          /\ gitlab.user = None
          /\ LET out == IF calls = <<>> THEN NoOutcome ELSE calls[1].outcome
                 ran == KeywordQueryOnEvent(Authenticated(Self), event, out)
             IN  /\ ran.response = response
                 /\ ran.calls = calls
                 /\ ran.invoked = invoked

\* with the new token's authentication failed, a project search was served
C8_Witness ==
    /\ IsKeywordQuery(event)
    /\ current_user = None
    /\ gitlab.user = None
    /\ gitlab.private_token = "tokB"
    /\ invoked # <<>> /\ invoked[1].method = "search_projects"
    /\ Listed(calls, "projects.list")
    /\ Len(calls[1].outcome.value) = 2
    /\ Rendered(response)
    /\ Len(response.action.items) = 2

----------------------------------------------------------------------------
\* C10: after a preferences-changed event for url or access_token the client
\* is bound to the new value, and in every state the cached current_user, if
\* any, is the identity resolved under the client's present URL and token.
C10_SessionRebuilt ==
    /\ (event.type = "PreferencesUpdateEvent" /\ event.id = "url")
       => gitlab.url = event.new_value
    /\ (event.type = "PreferencesUpdateEvent" /\ event.id = "access_token")
       => gitlab.private_token = event.new_value
    /\ current_user # None
       => current_user = [url |-> gitlab.url, token |-> gitlab.private_token]

\* C2: an item-enter event whose fetch of the running pipelines fails is
\* answered with a rendered list holding an item that describes the failure;
\* the exception does not reach the host.
C2_DrillDownFailureRendered ==
    (IsItemEnter(event) /\ calls # <<>> /\ ~calls[1].outcome.ok)
    => /\ Rendered(response)
       /\ Len(response.action.items) = 1
       /\ response.action.items[1].description = calls[1].outcome.exc.str

\* the text `query` starts with `word`, letter case ignored
StartsWith(word, query) ==
    /\ Len(query) >= Len(word)
    /\ \A i \in 1..Len(word) :
         LET up == [c \in {"m", "r", "o", "v", "e", "i", "w", "p", "j", "c", "t",
                           "s", "l", "n", "g", "u"} |->
                      CASE c = "m" -> "M" [] c = "r" -> "R" [] c = "o" -> "O"
                        [] c = "v" -> "V" [] c = "e" -> "E" [] c = "i" -> "I"
                        [] c = "w" -> "W" [] c = "p" -> "P" [] c = "j" -> "J"
                        [] c = "c" -> "C" [] c = "t" -> "T" [] c = "s" -> "S"
                        [] c = "l" -> "L" [] c = "n" -> "N" [] c = "g" -> "G"
                        [] c = "u" -> "U"]
         IN  query[i] = word[i] \/ query[i] = up[word[i]]

\* C3: a keyword query that starts with "mr" is answered with a rendered
\* result; no exception escapes to the host.
C3_MergeRequestsUnsupported ==
    (IsKeywordQuery(event) /\ StartsWith(W_mr, ArgumentOrEmpty(event)))
    => Rendered(response)

\* the command and remainder the routing rule of the specification selects:
\* the first prefix, in priority order, that the query starts with, and the
\* text after it
PrefixRoute(query) ==
    LET after(word) == SubSeq(query, Len(word) + 1, Len(query))
    IN  IF query = <<>> THEN [command |-> "menu", argument |-> <<>>]
        ELSE IF StartsWith(W_overview, query)
             THEN [command |-> "overview", argument |-> after(W_overview)]
        ELSE IF StartsWith(W_projects, query)
             THEN [command |-> "projects", argument |-> after(W_projects)]
        ELSE IF StartsWith(W_pipelines, query)
             THEN [command |-> "pipelines", argument |-> after(W_pipelines)]
        ELSE IF StartsWith(W_mr, query)
             THEN [command |-> "mr", argument |-> after(W_mr)]
        ELSE IF StartsWith(W_groups, query)
             THEN [command |-> "groups", argument |-> after(W_groups)]
        ELSE [command |-> "default", argument |-> query]

\* C4: every keyword query selects the one handler of the first prefix it
\* starts with and passes it the text after the prefix verbatim; the empty
\* query selects the three-item menu without a remote call; a query that
\* starts with no prefix is passed whole to the member-project search.
\* (The mr command has no handler to enter; it is left to C3.)
C4_RoutingByPrefix ==
    IsKeywordQuery(event)
    => LET query == ArgumentOrEmpty(event)
           r == PrefixRoute(query)
       IN  /\ r.command = "menu"
              => /\ invoked = <<[method |-> "show_menu"]>>
                 /\ calls = <<>>
                 /\ Rendered(response)
                 /\ Len(response.action.items) = 3
           /\ r.command = "overview"
              => invoked = <<[method |-> "show_overview_menu",
                              query |-> r.argument]>>
           /\ r.command \in {"projects", "default"}
              => invoked = <<[method |-> "search_projects", query |-> r.argument,
                              search_type |-> "MEMBER"]>>
           /\ r.command = "pipelines"
              => invoked = <<[method |-> "search_projects_for_pipeline",
                              query |-> r.argument]>>
           /\ r.command = "groups"
              => invoked = <<[method |-> "list_groups", query |-> r.argument]>>

\* Routing of the queries that hold no line feed: on these the if-chain and
\* the prefix rule agree.
RoutingWithoutLineFeed ==
    (/\ IsKeywordQuery(event)
     /\ \A i \in 1..Len(ArgumentOrEmpty(event)) : ArgumentOrEmpty(event)[i] # "\n")
    => Route(ArgumentOrEmpty(event)) = PrefixRoute(ArgumentOrEmpty(event))

====
